---- MODULE Spec2Model ----
(***************************************************************************)
(* Model of the firmware images of a863h/makemit.                          *)
(*                                                                         *)
(*   accelerometer/main/main.c : MMA8451 telemetry pipeline (identity      *)
(*       check, configuration writes, 150-value batch loop, HTTP POST).    *)
(*   led_test/main/main.cpp    : LED pulse task polling a tempo value      *)
(*       with an HTTP GET (make_temp_request and its event handler).       *)
(*                                                                         *)
(* Each image has its own app_main; Init picks the image that is flashed. *)
(*                                                                         *)
(* Numeric representation.  A C float holding (ix / 16384.0) * 9.80665f    *)
(* is represented by the integer ix ("q14": the value in units of          *)
(* g/16384).  The map ix -> float is injective on the int16 range, so      *)
(* equality of buffer entries is equality of floats.  Text produced by     *)
(* "%.2f" is represented by a record [neg, centi]: sign and hundredths.    *)
(***************************************************************************)
EXTENDS Integers, Sequences, FiniteSets, TLC

(***************************************************************************)
(* Bounds of the exploration (not program constants).                      *)
(***************************************************************************)
\* collect_and_send_data() calls explored per run
MaxBatches == 2
\* failed data-register reads explored per run when the bus fails freely
MaxBusFail == 2
\* failed configuration writes explored per run
MaxCfgFail == 1
\* make_temp_request() calls explored per run
MaxRequests == 2
\* HTTP_EVENT_ON_DATA events explored per request
MaxChunks == 2

(***************************************************************************)
(* Program constants, accelerometer/main/main.c                            *)
(***************************************************************************)
MAX_SAMPLES == 150
REG_OUT_X_MSB == 1
REG_WHO_AM_I == 13
REG_XYZ_DATA_CFG == 14
REG_CTRL_REG1 == 42
REG_PL_CFG == 17
REG_PL_COUNT == 18
REG_PL_BF_ZCOMP == 19
DEVICE_ID == 26

(***************************************************************************)
(* Program constants, led_test/main/main.cpp                               *)
(***************************************************************************)
MAX_INT_DIGITS == 16
PULSE_BPM == 40

\* esp_err_t values: only ESP_OK versus anything else is ever tested
ESP_OK == "ESP_OK"
ESP_FAIL == "ESP_FAIL"

\* identity-register bytes a device on the bus may answer with
IdBytes == {26, 42, 0, 255}

\* the two sensor streams explored (first MSB delivered)
SensorBases == {0, 100}

VARIABLES
    image,          \* which firmware image runs: "accelerometer" | "led_test"
    busMode,        \* "any": reads fail freely; "third": every third read fails
    sensorBase,     \* environment: which sensor stream is delivered
    pc,             \* position of the main control flow
    who_am_i,       \* app_main local, main.c:275
    idRead,         \* ghost: "none" | "ok" | "fail", outcome of the identity read
    writes,         \* ghost: log of write_reg calls <<reg, data, ret>>
    accel_buffer,   \* global float accel_buffer[MAX_SAMPLES], main.c:164
    sample_count,   \* collect_and_send_data local, main.c:194
    lastIdx,        \* ghost: indices written into accel_buffer by the last tick
    acq,            \* environment: frames delivered by the sensor so far
    acquired,       \* ghost: samples decoded since collect_and_send_data began
    ticks,          \* ghost: loop iterations (bus read attempts) so far
    dropped,        \* ghost: loop iterations whose bus read failed
    length,         \* post_acceleration_list parameter, main.c:123
    post_data,      \* post_acceleration_list local: NULL or the built body
    client,         \* local esp_http_client_handle_t: "NULL" | "H"
    err,            \* local esp_err_t of esp_http_client_perform
    liveHandles,    \* environment: client handles initialised and not cleaned
    liveBufs,       \* environment: malloc'ed blocks not freed
    badFree,        \* ghost: a release of something that was not live
    inFlight,       \* ghost: esp_http_client_perform calls of the upload running
    postCalls,      \* ghost: calls of post_acceleration_list
    performs,       \* ghost: upload transfers started
    lostVals,       \* ghost: buffer values of batches whose transfer failed
    batches,        \* ghost: collect_and_send_data calls completed
    int_buffer,     \* static char int_buffer[MAX_INT_DIGITS], main.cpp:35
    int_buffer_index, \* static int int_buffer_index, main.cpp:36
    result,         \* make_temp_request local, main.cpp:63
    caller,         \* who called make_temp_request: "app_main" | "pulse"
    pulse_bpm,      \* global int pulse_bpm, main.cpp:29
    ms_per_beat,    \* led_pulse_task local, main.cpp:176
    firstRun,       \* led_pulse_task: last_request_time == 0, main.cpp:163
    requests,       \* ghost: make_temp_request calls so far
    chunks,         \* ghost: data events delivered to the running request
    body,           \* ghost: response body delivered so far to the running request
    ibTouched,      \* ghost: int_buffer indices written by the last data event
    in_msb,         \* function input: a register byte (MSB of an axis)
    in_lsb,         \* function input: a register byte (LSB of an axis, status)
    fn_out,         \* result of the function applied last to the input
    cyclic          \* TRUE when the ghost counters wrap (liveness runs)

vars == <<image, busMode, sensorBase, pc, who_am_i, idRead, writes,
          accel_buffer, sample_count, lastIdx, acq, acquired, ticks, dropped,
          length, post_data, client, err, liveHandles, liveBufs, badFree, inFlight,
          postCalls, performs, lostVals, batches, int_buffer,
          int_buffer_index, result, caller, pulse_bpm, ms_per_beat, firstRun,
          requests, chunks, body, ibTouched, in_msb, in_lsb, fn_out, cyclic>>

\* state of the led_test image only
ledVars == <<int_buffer, int_buffer_index, result, caller, pulse_bpm,
             ms_per_beat, firstRun, requests, chunks, body, ibTouched>>

\* inputs and result of the functions exercised on their own, and the mode
\* of the ghost counters; no action of an image changes them
auxVars == <<in_msb, in_lsb, fn_out, cyclic>>

\* state of the accelerometer image only
accelVars == <<busMode, sensorBase, who_am_i, idRead, writes, accel_buffer,
               sample_count, lastIdx, acq, acquired, ticks, dropped, length,
               post_data, liveBufs, inFlight, postCalls, performs, lostVals,
               batches>>

(***************************************************************************)
(* Pure functions                                                          *)
(***************************************************************************)
\* variant of Int16 that keeps the value unsigned
Int16_unsigned(u) == u

\* (int16_t) of a value in 0..65535
Int16(u) == IF u >= 32768 THEN u - 65536 ELSE u

\* (int16_t)((msb << 8) | lsb), main.c:178
Combine(msb, lsb) == Int16((msb * 256 + lsb) % 65536)

\* The sensor: the n-th frame it delivers (X-MSB,X-LSB,Y-MSB,Y-LSB,Z-MSB,Z-LSB).
\* 14-bit left-justified readings, so the two low bits of every LSB are 0.
\* Distinct n below 256 give pairwise distinct axis values.
Frame(n) ==
    LET m == (sensorBase + n) % 256
    IN  <<m, 4, m, 8, m, 12>>

\* variant of mma8451_read_accel whose z axis is divided by 4096, not 16384
mma8451_read_accel_mixed(ret, raw) ==
    IF ret = ESP_OK
    THEN [ret |-> ret,
          xyz |-> <<Combine(raw[1], raw[2]),
                    Combine(raw[3], raw[4]),
                    4 * Combine(raw[5], raw[6])>>]
    ELSE [ret |-> ret, xyz |-> <<>>]

\* mma8451_read_accel: on ESP_OK the three outputs are written, otherwise
\* they are left untouched (xyz = <<>> stands for "not written").
mma8451_read_accel(ret, raw) ==
    IF ret = ESP_OK
    THEN [ret |-> ret,
          xyz |-> <<Combine(raw[1], raw[2]),
                    Combine(raw[3], raw[4]),
                    Combine(raw[5], raw[6])>>]
    ELSE [ret |-> ret, xyz |-> <<>>]

\* buf with buf[i] := v; a write outside the array is recorded, not applied
Poke(buf, i, v) == IF i \in DOMAIN buf THEN [buf EXCEPT ![i] = v] ELSE buf

\* variant of StoreSample with the y and z stores exchanged
StoreSample_xzy(buf, cnt, s) ==
    [buf |-> Poke(Poke(Poke(buf, cnt, s[1]), cnt + 1, s[3]), cnt + 2, s[2]),
     cnt |-> cnt + 3,
     idx |-> {cnt, cnt + 1, cnt + 2}]

\* the three stores of one successful tick, main.c:204-209
StoreSample(buf, cnt, s) ==
    [buf |-> Poke(Poke(Poke(buf, cnt, s[1]), cnt + 1, s[2]), cnt + 2, s[3]),
     cnt |-> cnt + 3,
     idx |-> {cnt, cnt + 1, cnt + 2}]

\* variant of TickStore without the ESP_OK test: a failed read stores zeros
TickStore_fabricate(rd, buf, cnt) ==
    StoreSample(buf, cnt, IF rd.ret = ESP_OK THEN rd.xyz ELSE <<0, 0, 0>>)

\* body of the sampling loop after the read, main.c:201-210
TickStore(rd, buf, cnt) ==
    IF rd.ret = ESP_OK
    THEN StoreSample(buf, cnt, rd.xyz)
    ELSE [buf |-> buf, cnt |-> cnt, idx |-> {}]

\* variant of LoopCond: off by one, `<=` for `<`
LoopCond_le(cnt) == cnt <= MAX_SAMPLES

\* variant of LoopCond: the loop ends one sample early
LoopCond_short(cnt) == cnt < MAX_SAMPLES - 3

\* while (sample_count < MAX_SAMPLES), main.c:196
LoopCond(cnt) == cnt < MAX_SAMPLES

Abs(v) == IF v < 0 THEN 0 - v ELSE v

\* "%.2f" of the float (v / 16384) * 9.80665: sign and rounded hundredths.
\* round(|v| * 980.665 / 16384) = floor((|v|*196133 + 1638400) / 3276800),
\* evaluated as floor((|v|*1961 + 16384 + floor(|v|*33 / 100)) / 32768)
\* to stay inside 32-bit arithmetic.
Fmt2(v) ==
    [neg   |-> v < 0,
     centi |-> (Abs(v) * 1961 + 16384 + ((Abs(v) * 33) \div 100)) \div 32768]

\* the array elements written by the sprintf loop, main.c:131-138
Serialize(accel_data, len) == [i \in 1..len |-> Fmt2(accel_data[i - 1])]

\* malloc(2048), main.c:126
POST_DATA_SIZE == 2048

\* sprintf(post_data, "{\"data\": [") returns 10, main.c:131
PREFIX_LEN == 10

\* variant of TextLen for a "%.10f" conversion
TextLen_wide(f) ==
    (IF f.neg THEN 1 ELSE 0) + (IF f.centi \div 100 >= 10 THEN 2 ELSE 1) + 11

\* characters of one "%.2f" conversion: sign, integer digits, point, two
\* decimals (the integer part of a decoded value is below 100)
TextLen(f) ==
    (IF f.neg THEN 1 ELSE 0) + (IF f.centi \div 100 >= 10 THEN 2 ELSE 1) + 3

RECURSIVE LoopAdvance(_, _, _, _)
\* what the sprintf loop adds to offset for the elements lo..hi of the len
\* elements of accel_data, each but the last one followed by a comma,
\* main.c:132-137 (the sum is split in halves to keep the evaluation shallow)
LoopAdvance(accel_data, len, lo, hi) ==
    IF lo > hi THEN 0
    ELSE IF lo = hi
         THEN TextLen(Fmt2(accel_data[lo])) + (IF lo = len - 1 THEN 0 ELSE 1)
         ELSE LET mid == (lo + hi) \div 2
              IN  LoopAdvance(accel_data, len, lo, mid)
                  + LoopAdvance(accel_data, len, mid + 1, hi)

\* the body that post_acceleration_list builds in post_data: the offset
\* after the loop, the index of the NUL that ends "]}", and the lengths of
\* the element texts, main.c:131-138
BuildBody(accel_data, len) ==
    LET off == PREFIX_LEN + LoopAdvance(accel_data, len, 0, len - 1)
    IN  [offset |-> off,
         last   |-> off + 2,
         lens   |-> {TextLen(Fmt2(accel_data[i])) : i \in 0..(len - 1)}]

\* x >> 2 of an int16_t: the arithmetic shift of decoding policy (a)
ShiftRight2(x) == x \div 4

\* variant of PlBits without the shift
PlBits_noshift(pl_status) == pl_status % 4

\* (pl_status >> 1) & 0x03, main.c:42
PlBits(pl_status) == (pl_status \div 2) % 4

\* the switch on pl_bits, main.c:43-60
PlState(pl_bits) ==
    CASE pl_bits = 0 -> "Portrait Up"
      [] pl_bits = 1 -> "Portrait Down"
      [] pl_bits = 2 -> "Landscape Right"
      [] pl_bits = 3 -> "Landscape Left"
      [] OTHER -> "Unknown"

\* process_data: what it prints.  ax = (x_raw / 4096.0f) * GRAVITY_CONSTANT
\* is held in the unit of the buffer values, 1/16384 g: 4 * x_raw.
process_data(x_raw, y_raw, z_raw, pl_status) ==
    [ax |-> 4 * x_raw, ay |-> 4 * y_raw, az |-> 4 * z_raw,
     pl_state |-> PlState(PlBits(pl_status)),
     side |-> IF pl_status % 2 = 1 THEN "Back" ELSE "Front"]

(***************************************************************************)
(* Environment: outcomes of bus and HTTP primitives                        *)
(***************************************************************************)
Range(f) == {f[i] : i \in DOMAIN f}

NULL == "NULL"

\* post_data when it points to no buffer: malloc returned NULL or the buffer
\* was freed (an empty sequence, which compares with a built body)
NullBody == <<>>

\* esp_http_client_init: a handle, or NULL when it cannot allocate
InitOutcomes == {"H", NULL}

\* esp_http_client_perform(client): with a NULL client it fails at once
PerformOutcomes(c) == IF c = NULL THEN {ESP_FAIL} ELSE {ESP_OK, ESP_FAIL}

\* esp_http_client_cleanup(c): releases the handle c
Cleanup(c, live, bad) ==
    IF c = NULL THEN [live |-> live, bad |-> bad]
    ELSE IF live > 0 THEN [live |-> live - 1, bad |-> bad]
    ELSE [live |-> live, bad |-> TRUE]

\* free(p) of a block obtained from malloc
Free(bufs, bad) ==
    IF bufs > 0 THEN [bufs |-> bufs - 1, bad |-> bad]
    ELSE [bufs |-> bufs, bad |-> TRUE]

cfgFails == Cardinality({i \in DOMAIN writes : writes[i][3] # ESP_OK})

\* write_reg result: i2c_master_write_to_device may fail (NACK, timeout)
WriteOutcomes == {ESP_OK} \cup (IF cfgFails < MaxCfgFail THEN {ESP_FAIL} ELSE {})

\* result of the data-register read of the tick that is about to run
DataReadOutcomes ==
    IF busMode = "third"
    THEN (IF (ticks + 1) % 3 = 0 THEN {ESP_FAIL} ELSE {ESP_OK})
    ELSE {ESP_OK} \cup (IF dropped < MaxBusFail THEN {ESP_FAIL} ELSE {})

\* frames of one batch: MAX_SAMPLES values, three per frame
FRAMES_PER_BATCH == 50

\* a ghost counter after one more event; it stands still when cyclic, so
\* that the loop of app_main can run for ever in a finite state space
Count(c) == IF cyclic THEN c ELSE c + 1

\* the ghost set of lost values after vals are lost
Lose(lost, vals) == IF cyclic THEN lost ELSE lost \cup vals

\* the position after one more frame of a stream counted modulo m when cyclic
Advance(n, m) == IF cyclic THEN (n + 1) % m ELSE n + 1

(***************************************************************************)
(* accelerometer/main/main.c                                               *)
(***************************************************************************)
Accel == image = "accelerometer"

\* make_google_request, main.c:105
GoogleInit ==
    /\ Accel /\ pc = "g_init"
    /\ \E c \in InitOutcomes :
          /\ client' = c
          /\ liveHandles' = IF c = NULL THEN liveHandles ELSE liveHandles + 1
    /\ pc' = "g_perform"
    /\ UNCHANGED <<ledVars, auxVars, image, busMode, sensorBase, who_am_i, idRead, writes,
                   accel_buffer, sample_count, lastIdx, acq, acquired, ticks,
                   dropped, length, post_data, err, liveBufs, badFree,
                   inFlight, postCalls, performs, lostVals, batches>>

\* make_google_request, main.c:107-118
GooglePerform ==
    /\ Accel /\ pc = "g_perform"
    /\ \E e \in PerformOutcomes(client) : err' = e
    /\ pc' = "g_cleanup"
    /\ UNCHANGED <<ledVars, auxVars, image, busMode, sensorBase, who_am_i, idRead, writes,
                   accel_buffer, sample_count, lastIdx, acq, acquired, ticks,
                   dropped, length, post_data, client, liveHandles, liveBufs,
                   badFree, inFlight, postCalls, performs, lostVals, batches>>

\* make_google_request, main.c:120-121, and the return into app_main
GoogleCleanup ==
    /\ Accel /\ pc = "g_cleanup"
    /\ LET r == Cleanup(client, liveHandles, badFree)
       IN  /\ liveHandles' = r.live
           /\ badFree' = r.bad
    /\ client' = NULL
    /\ err' = ESP_OK
    /\ pc' = "who_am_i"
    /\ UNCHANGED <<ledVars, auxVars, image, busMode, sensorBase, who_am_i, idRead, writes,
                   accel_buffer, sample_count, lastIdx, acq, acquired, ticks,
                   dropped, length, post_data, liveBufs, inFlight, postCalls,
                   performs, lostVals, batches>>

\* variant of IdentityMismatch: the check is skipped
IdentityMismatch_off(w) == FALSE

\* if (who_am_i != 0x1A), main.c:279
IdentityMismatch(w) == w # DEVICE_ID

\* identity read and check, main.c:275-283.  The result of the bus call is
\* not looked at; a failed read leaves who_am_i at its initial 0.
IdentityCheck ==
    /\ Accel /\ pc = "who_am_i"
    /\ \/ \E b \in IdBytes : who_am_i' = b /\ idRead' = "ok"
       \/ who_am_i' = who_am_i /\ idRead' = "fail"
    /\ pc' = IF IdentityMismatch(who_am_i') THEN "fatal" ELSE "cfg"
    /\ UNCHANGED <<ledVars, auxVars, image, busMode, sensorBase, writes, accel_buffer,
                   sample_count, lastIdx, acq, acquired, ticks, dropped,
                   length, post_data, client, err, liveHandles, liveBufs,
                   badFree, inFlight, postCalls, performs, lostVals, batches>>

\* variant of CfgWrites: active mode is set before the range is written
CfgWrites_activeEarly ==
    << <<REG_CTRL_REG1, 0>>, <<REG_PL_CFG, 64>>, <<REG_PL_COUNT, 5>>,
       <<REG_PL_BF_ZCOMP, 68>>, <<REG_CTRL_REG1, 1>>, <<REG_XYZ_DATA_CFG, 0>> >>

\* the configuration writes in program order, main.c:286-297
CfgWrites ==
    << <<REG_CTRL_REG1, 0>>, <<REG_PL_CFG, 64>>, <<REG_PL_COUNT, 5>>,
       <<REG_PL_BF_ZCOMP, 68>>, <<REG_XYZ_DATA_CFG, 0>>, <<REG_CTRL_REG1, 1>> >>

\* one write_reg call of app_main, main.c:82-86 and 286-297; its esp_err_t
\* result is discarded by the caller
WriteReg ==
    /\ Accel /\ pc = "cfg"
    /\ LET k == Len(writes) + 1
       IN  /\ \E ret \in WriteOutcomes :
                 writes' = Append(writes, <<CfgWrites[k][1], CfgWrites[k][2], ret>>)
           /\ pc' = IF k = Len(CfgWrites) THEN "collect" ELSE "cfg"
    /\ UNCHANGED <<ledVars, auxVars, image, busMode, sensorBase, who_am_i, idRead, accel_buffer,
                   sample_count, lastIdx, acq, acquired, ticks, dropped,
                   length, post_data, client, err, liveHandles, liveBufs,
                   badFree, inFlight, postCalls, performs, lostVals, batches>>

\* while (1) { collect_and_send_data(); }: entry of the call, main.c:299-306, 194
CollectStart ==
    /\ Accel /\ pc = "collect"
    /\ batches < MaxBatches
    /\ sample_count' = 0
    /\ acquired' = <<>>
    /\ lastIdx' = {}
    /\ pc' = "sampling"
    /\ UNCHANGED <<ledVars, auxVars, image, busMode, sensorBase, who_am_i, idRead, writes,
                   accel_buffer, acq, ticks, dropped, length, post_data,
                   client, err, liveHandles, liveBufs, badFree, inFlight,
                   postCalls, performs, lostVals, batches>>

\* one iteration of the sampling loop, main.c:196-214
Tick ==
    /\ Accel /\ pc = "sampling"
    /\ LoopCond(sample_count)
    /\ \E ret \in DataReadOutcomes :
          LET rd == mma8451_read_accel(ret, Frame(acq))
              st == TickStore(rd, accel_buffer, sample_count)
          IN  /\ accel_buffer' = st.buf
              /\ sample_count' = st.cnt
              /\ lastIdx' = st.idx
              /\ ticks' = Advance(ticks, 3)
              /\ dropped' = IF ret = ESP_OK THEN dropped ELSE Count(dropped)
              /\ acq' = IF ret = ESP_OK THEN Advance(acq, FRAMES_PER_BATCH) ELSE acq
              /\ acquired' = IF ret = ESP_OK THEN Append(acquired, rd.xyz)
                             ELSE acquired
    /\ UNCHANGED <<ledVars, auxVars, image, busMode, sensorBase, pc, who_am_i, idRead, writes,
                   length, post_data, client, err, liveHandles, liveBufs,
                   badFree, inFlight, postCalls, performs, lostVals, batches>>

\* loop exit and the call post_acceleration_list(accel_buffer, MAX_SAMPLES),
\* main.c:196, 217
LoopExit ==
    /\ Accel /\ pc = "sampling"
    /\ ~LoopCond(sample_count)
    /\ length' = MAX_SAMPLES
    /\ postCalls' = Count(postCalls)
    /\ pc' = "post_malloc"
    /\ UNCHANGED <<ledVars, auxVars, image, busMode, sensorBase, who_am_i, idRead, writes,
                   accel_buffer, sample_count, lastIdx, acq, acquired, ticks,
                   dropped, post_data, client, err, liveHandles, liveBufs,
                   badFree, inFlight, performs, lostVals, batches>>

\* post_acceleration_list: malloc and the JSON build, main.c:126-138
PostMalloc ==
    /\ Accel /\ pc = "post_malloc"
    /\ \/ /\ post_data' = NullBody
          /\ lostVals' = Lose(lostVals, Range(accel_buffer))
          /\ batches' = Count(batches)
          /\ pc' = "collect"
          /\ UNCHANGED liveBufs
       \/ /\ post_data' = Serialize(accel_buffer, length)
          /\ liveBufs' = liveBufs + 1
          /\ pc' = "post_init"
          /\ UNCHANGED <<lostVals, batches>>
    /\ UNCHANGED <<ledVars, auxVars, image, busMode, sensorBase, who_am_i, idRead, writes,
                   accel_buffer, sample_count, lastIdx, acq, acquired, ticks,
                   dropped, length, client, err, liveHandles, badFree,
                   inFlight, postCalls, performs>>

\* post_acceleration_list: client set-up, main.c:141-149
PostInit ==
    /\ Accel /\ pc = "post_init"
    /\ \E c \in InitOutcomes :
          /\ client' = c
          /\ liveHandles' = IF c = NULL THEN liveHandles ELSE liveHandles + 1
    /\ pc' = "post_perform"
    /\ UNCHANGED <<ledVars, auxVars, image, busMode, sensorBase, who_am_i, idRead, writes,
                   accel_buffer, sample_count, lastIdx, acq, acquired, ticks,
                   dropped, length, post_data, err, liveBufs, badFree,
                   inFlight, postCalls, performs, lostVals, batches>>

\* variant of PerformReturnsTo: the call returns while the transfer runs
PerformReturnsTo_async == "post_cleanup"

\* esp_http_client_perform blocks until the transfer is over, main.c:152
PerformReturnsTo == "post_wait"

\* post_acceleration_list: the transfer starts, main.c:152
PostPerformStart ==
    /\ Accel /\ pc = "post_perform"
    /\ IF client = NULL
       THEN /\ err' = ESP_FAIL
            /\ lostVals' = Lose(lostVals, Range(accel_buffer))
            /\ pc' = "post_cleanup"
            /\ UNCHANGED <<performs, inFlight>>
       ELSE /\ performs' = Count(performs)
            /\ inFlight' = inFlight + 1
            /\ pc' = PerformReturnsTo
            /\ UNCHANGED <<err, lostVals>>
    /\ UNCHANGED <<ledVars, auxVars, image, busMode, sensorBase, who_am_i, idRead, writes,
                   accel_buffer, sample_count, lastIdx, acq, acquired, ticks,
                   dropped, length, post_data, client, liveHandles, liveBufs,
                   badFree, postCalls, batches>>

\* variant of AfterPerform: a failed transfer is performed again
AfterPerform_retry(e) == IF e = ESP_OK THEN "post_cleanup" ELSE "post_perform"

\* whatever err is, control goes on to the cleanup, main.c:153-159
AfterPerform(e) == "post_cleanup"

\* post_acceleration_list: the transfer is over, main.c:152-156
PostPerformDone ==
    /\ Accel /\ pc = "post_wait"
    /\ \E e \in PerformOutcomes(client) :
          /\ err' = e
          /\ lostVals' = IF e = ESP_OK THEN lostVals
                         ELSE Lose(lostVals, Range(accel_buffer))
          /\ pc' = AfterPerform(e)
    /\ inFlight' = inFlight - 1
    /\ UNCHANGED <<ledVars, auxVars, image, busMode, sensorBase, who_am_i, idRead, writes,
                   accel_buffer, sample_count, lastIdx, acq, acquired, ticks,
                   dropped, length, post_data, client, liveHandles, liveBufs,
                   badFree, postCalls, performs, batches>>

\* variant of PostCleanup: an early return on error skips cleanup and free
PostCleanup_leakOnError ==
    /\ Accel /\ pc = "post_cleanup"
    /\ IF err = ESP_OK
       THEN LET r == Cleanup(client, liveHandles, badFree)
                f == Free(liveBufs, r.bad)
            IN  /\ liveHandles' = r.live
                /\ liveBufs' = f.bufs
                /\ badFree' = f.bad
       ELSE UNCHANGED <<liveHandles, liveBufs, badFree>>
    /\ post_data' = NullBody
    /\ client' = NULL
    /\ err' = ESP_OK
    /\ batches' = Count(batches)
    /\ pc' = "collect"
    /\ UNCHANGED <<ledVars, auxVars, image, busMode, sensorBase, who_am_i, idRead, writes,
                   accel_buffer, sample_count, lastIdx, acq, acquired, ticks,
                   dropped, length, inFlight, postCalls, performs, lostVals>>

\* post_acceleration_list: cleanup, free and both returns, main.c:158-161, 218
PostCleanup ==
    /\ Accel /\ pc = "post_cleanup"
    /\ LET r == Cleanup(client, liveHandles, badFree)
           f == Free(liveBufs, r.bad)
       IN  /\ liveHandles' = r.live
           /\ liveBufs' = f.bufs
           /\ badFree' = f.bad
    /\ post_data' = NullBody
    /\ client' = NULL
    /\ err' = ESP_OK
    /\ batches' = Count(batches)
    /\ pc' = "collect"
    /\ UNCHANGED <<ledVars, auxVars, image, busMode, sensorBase, who_am_i, idRead, writes,
                   accel_buffer, sample_count, lastIdx, acq, acquired, ticks,
                   dropped, length, inFlight, postCalls, performs, lostVals>>

(***************************************************************************)
(* led_test/main/main.cpp                                                  *)
(***************************************************************************)
Led == image = "led_test"

\* characters are their ASCII codes; 0 is the terminating NUL
IsDigit(c) == c \in 48..57

\* response bodies arrive as data events carrying one of these chunks:
\* "120", "x", "12345678", and a 15-character run of '7'
Chunks ==
    { <<49, 50, 48>>, <<120>>,
      <<49, 50, 51, 52, 53, 54, 55, 56>>,
      [i \in 1..15 |-> 55] }

RECURSIVE DigitsFrom(_, _, _)
\* the digit loop of strtol: stops at the first non-digit, clamps at LONG_MAX
DigitsFrom(buf, i, acc) ==
    IF i \notin DOMAIN buf \/ ~IsDigit(buf[i]) THEN acc
    ELSE LET d == buf[i] - 48
         IN  DigitsFrom(buf, i + 1,
                        IF acc > (2147483647 - d) \div 10 THEN 2147483647
                        ELSE acc * 10 + d)

\* atoi(int_buffer), main.cpp:76: optional sign, then decimal digits
atoi(buf) ==
    IF buf[0] = 45 THEN 0 - DigitsFrom(buf, 1, 0)
    ELSE IF buf[0] = 43 THEN DigitsFrom(buf, 1, 0)
    ELSE DigitsFrom(buf, 0, 0)

\* memcpy(int_buffer + at, data, Len(data))
Memcpy(buf, at, data) ==
    [i \in DOMAIN buf |->
        IF i >= at /\ i < at + Len(data) THEN data[i - at + 1] ELSE buf[i]]

\* variant of OnDataHandler whose room test is <= instead of <
OnDataHandler_le(buf, idx, data) ==
    IF idx + Len(data) <= MAX_INT_DIGITS - 1
    THEN [buf |-> [Memcpy(buf, idx, data) EXCEPT ![idx + Len(data)] = 0],
          idx |-> idx + Len(data),
          touched |-> idx..(idx + Len(data))]
    ELSE [buf |-> buf, idx |-> idx, touched |-> {}]

\* case HTTP_EVENT_ON_DATA, main.cpp:42-50
OnDataHandler(buf, idx, data) ==
    IF idx + Len(data) < MAX_INT_DIGITS - 1
    THEN [buf |-> [Memcpy(buf, idx, data) EXCEPT ![idx + Len(data)] = 0],
          idx |-> idx + Len(data),
          touched |-> idx..(idx + Len(data))]
    ELSE [buf |-> buf, idx |-> idx, touched |-> {}]

\* entry of make_temp_request called from `from`, main.cpp:63-64
TempEntry(from) ==
    /\ requests < MaxRequests
    /\ caller' = from
    /\ result' = 0
    /\ int_buffer' = [int_buffer EXCEPT ![0] = 0]
    /\ requests' = requests + 1
    /\ chunks' = 0
    /\ body' = <<>>
    /\ ibTouched' = {}
    /\ pc' = "t_init"

\* app_main: int reply = make_temp_request(), main.cpp:272
AppMainRequest ==
    /\ Led /\ pc = "t_main"
    /\ TempEntry("app_main")
    /\ UNCHANGED <<accelVars, auxVars, image, client, err, liveHandles, badFree,
                   int_buffer_index, pulse_bpm, ms_per_beat, firstRun>>

\* led_pulse_task: an iteration whose refresh condition holds, main.cpp:165-173
PulseRefresh ==
    /\ Led /\ pc = "t_loop"
    /\ TempEntry("pulse")
    /\ UNCHANGED <<accelVars, auxVars, image, client, err, liveHandles, badFree,
                   int_buffer_index, pulse_bpm, ms_per_beat, firstRun>>

\* make_temp_request: esp_http_client_init, main.cpp:66-71
TempInit ==
    /\ Led /\ pc = "t_init"
    /\ \E c \in InitOutcomes :
          /\ client' = c
          /\ liveHandles' = IF c = NULL THEN liveHandles ELSE liveHandles + 1
    /\ pc' = "t_perform"
    /\ UNCHANGED <<accelVars, auxVars, image, err, badFree, ledVars>>

\* esp_http_client_perform delivers a data event, main.cpp:42-50
OnData ==
    /\ Led /\ pc = "t_perform" /\ client # NULL
    /\ chunks < MaxChunks
    /\ \E data \in Chunks :
          LET r == OnDataHandler(int_buffer, int_buffer_index, data)
          IN  /\ int_buffer' = r.buf
              /\ int_buffer_index' = r.idx
              /\ ibTouched' = r.touched
              /\ body' = body \o data
    /\ chunks' = chunks + 1
    /\ UNCHANGED <<accelVars, auxVars, image, pc, client, err, liveHandles, badFree,
                   result, caller, pulse_bpm, ms_per_beat, firstRun, requests>>

\* the transfer completes: HTTP_EVENT_ON_FINISH, then perform returns ESP_OK
\* and the body is parsed, main.cpp:51-54 and 73-78
PerformOk ==
    /\ Led /\ pc = "t_perform" /\ client # NULL
    /\ int_buffer_index' = 0
    /\ err' = ESP_OK
    /\ result' = atoi(int_buffer)
    /\ ibTouched' = {}
    /\ pc' = "t_cleanup"
    /\ UNCHANGED <<accelVars, auxVars, image, client, liveHandles, badFree, int_buffer,
                   caller, pulse_bpm, ms_per_beat, firstRun, requests, chunks,
                   body>>

\* the transfer fails: perform returns an error, no finish event, main.cpp:73
PerformFail ==
    /\ Led /\ pc = "t_perform"
    /\ err' = ESP_FAIL
    /\ pc' = "t_cleanup"
    /\ UNCHANGED <<accelVars, auxVars, image, client, liveHandles, badFree, ledVars>>

\* make_temp_request: esp_http_client_cleanup, main.cpp:80
TempCleanup ==
    /\ Led /\ pc = "t_cleanup"
    /\ LET r == Cleanup(client, liveHandles, badFree)
       IN  /\ liveHandles' = r.live
           /\ badFree' = r.bad
    /\ client' = NULL
    /\ err' = ESP_OK
    /\ pc' = "t_return"
    /\ body' = <<>>
    /\ ibTouched' = {}
    /\ UNCHANGED <<accelVars, auxVars, image, int_buffer, int_buffer_index, result,
                   caller, pulse_bpm, ms_per_beat, firstRun, requests, chunks>>

\* app_main: pulse_bpm = reply; xTaskCreate(led_pulse_task), main.cpp:273-276
ReturnToAppMain ==
    /\ Led /\ pc = "t_return" /\ caller = "app_main"
    /\ pulse_bpm' = result
    /\ pc' = "t_loop"
    /\ UNCHANGED <<accelVars, auxVars, image, client, err, liveHandles, badFree,
                   int_buffer, int_buffer_index, result, caller, ms_per_beat,
                   firstRun, requests, chunks, body, ibTouched>>

\* led_pulse_task: pulse_bpm = make_temp_request(); ms_per_beat = 60000 /
\* pulse_bpm, main.cpp:173-179.  Dividing by zero is undefined: the task
\* either traps or goes on with an arbitrary quotient (-1 stands for it).
ReturnToPulse ==
    /\ Led /\ pc = "t_return" /\ caller = "pulse"
    /\ pulse_bpm' = result
    /\ IF result = 0
       THEN \/ pc' = "t_trap" /\ UNCHANGED ms_per_beat
            \/ pc' = "t_loop" /\ ms_per_beat' = -1
       ELSE pc' = "t_loop" /\ ms_per_beat' = 60000 \div result
    /\ firstRun' = FALSE
    /\ UNCHANGED <<accelVars, auxVars, image, client, err, liveHandles, badFree,
                   int_buffer, int_buffer_index, result, caller, requests,
                   chunks, body, ibTouched>>

(***************************************************************************)
(* The decoding and serializing functions on their own                     *)
(***************************************************************************)
\* no function has been applied yet
NoOut == [rd |-> <<>>, pd |-> <<>>, ser |-> <<>>]

\* the six data registers as read for the input bytes: X and Z hold
\* (in_msb, in_lsb), Y holds the bytes exchanged
InputFrame == <<in_msb, in_lsb, in_lsb, in_msb, in_msb, in_lsb>>

\* mma8451_read_accel on a successful read of the input frame, main.c:176-187
DecodeStep ==
    /\ pc = "fn_start"
    /\ fn_out' = [fn_out EXCEPT !.rd = mma8451_read_accel(ESP_OK, InputFrame)]
    /\ pc' = "fn_decoded"
    /\ UNCHANGED <<accelVars, ledVars, image, client, err, liveHandles, badFree,
                   in_msb, in_lsb, cyclic>>

\* decoding policy (a) on the same raw integers: shift right by 2, then
\* process_data divides by 4096; the status byte is in_lsb, main.c:32-66
ProcessStep ==
    /\ pc = "fn_decoded"
    /\ fn_out' = [fn_out EXCEPT !.pd =
                     process_data(ShiftRight2(Combine(in_msb, in_lsb)),
                                  ShiftRight2(Combine(in_lsb, in_msb)),
                                  ShiftRight2(Combine(in_msb, in_lsb)),
                                  in_lsb)]
    /\ pc' = "fn_processed"
    /\ UNCHANGED <<accelVars, ledVars, image, client, err, liveHandles, badFree,
                   in_msb, in_lsb, cyclic>>

\* post_acceleration_list builds the body of a batch made of 50 decoded
\* copies of the input frame, main.c:126-138
SerializeStep ==
    /\ pc = "fn_processed"
    /\ LET batch == [i \in 0..(MAX_SAMPLES - 1) |-> fn_out.rd.xyz[(i % 3) + 1]]
       IN  fn_out' = [fn_out EXCEPT !.ser = BuildBody(batch, MAX_SAMPLES)]
    /\ pc' = "fn_serialized"
    /\ UNCHANGED <<accelVars, ledVars, image, client, err, liveHandles, badFree,
                   in_msb, in_lsb, cyclic>>

(***************************************************************************)
(* Specification                                                           *)
(***************************************************************************)
Init ==
    /\ image \in {"accelerometer", "led_test"}
    /\ busMode \in (IF image = "accelerometer" THEN {"any", "third"} ELSE {"any"})
    /\ sensorBase \in (IF image = "accelerometer" THEN SensorBases ELSE {0})
    /\ pc = IF image = "accelerometer" THEN "g_init" ELSE "t_main"
    /\ who_am_i = 0
    /\ idRead = "none"
    /\ writes = <<>>
    /\ accel_buffer = [i \in 0..(MAX_SAMPLES - 1) |-> 0]
    /\ sample_count = 0
    /\ lastIdx = {}
    /\ acq = 0
    /\ acquired = <<>>
    /\ ticks = 0
    /\ dropped = 0
    /\ length = 0
    /\ post_data = NullBody
    /\ client = NULL
    /\ err = ESP_OK
    /\ liveHandles = 0
    /\ liveBufs = 0
    /\ badFree = FALSE
    /\ inFlight = 0
    /\ postCalls = 0
    /\ performs = 0
    /\ lostVals = {}
    /\ batches = 0
    /\ int_buffer = [i \in 0..(MAX_INT_DIGITS - 1) |-> 0]
    /\ int_buffer_index = 0
    /\ result = 0
    /\ caller = "none"
    /\ pulse_bpm = PULSE_BPM
    /\ ms_per_beat = 60000 \div PULSE_BPM
    /\ firstRun = TRUE
    /\ requests = 0
    /\ chunks = 0
    /\ body = <<>>
    /\ ibTouched = {}
    /\ in_msb = 0
    /\ in_lsb = 0
    /\ fn_out = NoOut
    /\ cyclic = FALSE

Next ==
    \/ GoogleInit
    \/ GooglePerform
    \/ GoogleCleanup
    \/ IdentityCheck
    \/ WriteReg
    \/ CollectStart
    \/ Tick
    \/ LoopExit
    \/ PostMalloc
    \/ PostInit
    \/ PostPerformStart
    \/ PostPerformDone
    \/ PostCleanup
    \/ AppMainRequest
    \/ PulseRefresh
    \/ TempInit
    \/ OnData
    \/ PerformOk
    \/ PerformFail
    \/ TempCleanup
    \/ ReturnToAppMain
    \/ ReturnToPulse

Spec == Init /\ [][Next]_vars

\* the low bytes of the frames that are serialized: the ends and the
\* quarters of the byte range and their neighbours
SerLsbs == {0, 1, 2, 3, 63, 64, 127, 128, 129, 191, 192, 252, 253, 254, 255}

\* the state before a function is applied to the register bytes msb, lsb
FnStart(msbs, lsbs) ==
    /\ image = "functions"
    /\ pc = "fn_start"
    /\ in_msb \in msbs
    /\ in_lsb \in lsbs
    /\ fn_out = NoOut
    /\ cyclic = FALSE
    /\ busMode = "any"
    /\ sensorBase = 0
    /\ who_am_i = 0
    /\ idRead = "none"
    /\ writes = <<>>
    /\ accel_buffer = [i \in 0..(MAX_SAMPLES - 1) |-> 0]
    /\ sample_count = 0
    /\ lastIdx = {}
    /\ acq = 0
    /\ acquired = <<>>
    /\ ticks = 0
    /\ dropped = 0
    /\ length = 0
    /\ post_data = NullBody
    /\ client = NULL
    /\ err = ESP_OK
    /\ liveHandles = 0
    /\ liveBufs = 0
    /\ badFree = FALSE
    /\ inFlight = 0
    /\ postCalls = 0
    /\ performs = 0
    /\ lostVals = {}
    /\ batches = 0
    /\ int_buffer = [i \in 0..(MAX_INT_DIGITS - 1) |-> 0]
    /\ int_buffer_index = 0
    /\ result = 0
    /\ caller = "none"
    /\ pulse_bpm = PULSE_BPM
    /\ ms_per_beat = 60000 \div PULSE_BPM
    /\ firstRun = TRUE
    /\ requests = 0
    /\ chunks = 0
    /\ body = <<>>
    /\ ibTouched = {}

\* the accelerometer image with cyclic ghost counters
InitLive ==
    /\ image = "accelerometer"
    /\ cyclic = TRUE
    /\ busMode \in {"any", "third"}
    /\ sensorBase \in SensorBases
    /\ pc = "g_init"
    /\ who_am_i = 0
    /\ idRead = "none"
    /\ writes = <<>>
    /\ accel_buffer = [i \in 0..(MAX_SAMPLES - 1) |-> 0]
    /\ sample_count = 0
    /\ lastIdx = {}
    /\ acq = 0
    /\ acquired = <<>>
    /\ ticks = 0
    /\ dropped = 0
    /\ length = 0
    /\ post_data = NullBody
    /\ client = NULL
    /\ err = ESP_OK
    /\ liveHandles = 0
    /\ liveBufs = 0
    /\ badFree = FALSE
    /\ inFlight = 0
    /\ postCalls = 0
    /\ performs = 0
    /\ lostVals = {}
    /\ batches = 0
    /\ int_buffer = [i \in 0..(MAX_INT_DIGITS - 1) |-> 0]
    /\ int_buffer_index = 0
    /\ result = 0
    /\ caller = "none"
    /\ pulse_bpm = PULSE_BPM
    /\ ms_per_beat = 60000 \div PULSE_BPM
    /\ firstRun = TRUE
    /\ requests = 0
    /\ chunks = 0
    /\ body = <<>>
    /\ ibTouched = {}
    /\ in_msb = 0
    /\ in_lsb = 0
    /\ fn_out = NoOut

NextLive ==
    \/ GoogleInit
    \/ GooglePerform
    \/ GoogleCleanup
    \/ IdentityCheck
    \/ WriteReg
    \/ CollectStart
    \/ Tick
    \/ LoopExit
    \/ PostMalloc
    \/ PostInit
    \/ PostPerformStart
    \/ PostPerformDone
    \/ PostCleanup

\* a tick whose bus read succeeds
TickOk == Tick /\ sample_count' # sample_count

\* what every step of the accelerometer image changes a part of
progress == <<pc, ticks, sample_count, Len(writes)>>

\* the task is never starved and every blocking call returns (weak
\* fairness of the next step); bus reads succeed again and again (strong
\* fairness of the successful tick)
SpecLive ==
    InitLive /\ [][NextLive]_vars
    /\ WF_progress(NextLive) /\ SF_progress(TickOk)

\* decoding applied to every pair of register bytes
InitFn == FnStart(0..255, 0..255)

NextFn ==
    \/ DecodeStep
    \/ ProcessStep

SpecFn == InitFn /\ [][NextFn]_vars

\* decoding and serializing applied to every high byte and the low bytes
\* of SerLsbs
InitSer == FnStart(0..255, SerLsbs)

NextSer ==
    \/ DecodeStep
    \/ ProcessStep
    \/ SerializeStep

SpecSer == InitSer /\ [][NextSer]_vars

(***************************************************************************)
(* Properties                                                              *)
(***************************************************************************)
\* the positions inside post_acceleration_list
PostPcs == {"post_malloc", "post_init", "post_perform", "post_wait",
            "post_cleanup"}

\* control is inside post_acceleration_list
InPost == pc \in PostPcs

\* control is inside post_acceleration_list and the body has been built
BodyBuilt == pc \in {"post_init", "post_perform", "post_wait", "post_cleanup"}

\* control is between the init and the cleanup of an HTTP client
InHttp == pc \in {"g_perform", "g_cleanup", "post_init", "post_perform",
                  "post_wait", "post_cleanup", "t_perform", "t_cleanup"}

\* the samples s[1], s[2], ... laid out x,y,z,x,y,z,... from index 0
Flatten(s) == [i \in 0..(3 * Len(s) - 1) |-> s[(i \div 3) + 1][(i % 3) + 1]]

\* C1: the batch never holds more than 150 values: sample_count stays in
\* 0..150 and every store of a tick goes to an index in 0..149, whatever the
\* interleaving of successful and failed bus reads.
C1_BatchWithinCapacity ==
    /\ sample_count \in 0..150
    /\ lastIdx \subseteq 0..149
    /\ DOMAIN accel_buffer = 0..149

\* a tick filled the last slot of the buffer in a run with failed reads
C1_Witness ==
    /\ pc = "sampling" /\ sample_count = 150 /\ 149 \in lastIdx
    /\ busMode = "any" /\ dropped > 0

\* C2: no partial batch is sent: the uploader is called only when 150 values
\* have been appended since the last reset, it is passed exactly those 150
\* values, and the count is back to 0 before the next append (the count
\* while sampling is the number of values appended since the last call).
C2_OnlyFullBatches ==
    /\ InPost =>
          /\ sample_count = 150
          /\ length = 150
          /\ 3 * (ticks - dropped) = 150 * postCalls
          /\ Len(acquired) = 50
          /\ \A i \in 0..(length - 1) : accel_buffer[i] = Flatten(acquired)[i]
    /\ BodyBuilt => Len(post_data) = 150
    /\ pc = "sampling" => sample_count = 3 * (ticks - dropped) - 150 * postCalls

\* the second batch is being uploaded, after failed reads
C2_Witness ==
    /\ pc = "post_wait" /\ postCalls = 2 /\ busMode = "any" /\ dropped > 0

\* C3: a tick whose read fails changes neither the buffer nor the count and
\* stays in Sampling; a tick whose read succeeds grows the count by 3.  With
\* a bus whose every third data read fails, N ticks drop floor(N/3) ticks
\* and 3*(N - floor(N/3)) values have been appended.
C3_FailedTickAppendsNothing ==
    /\ [][ticks' = ticks + 1 =>
            IF dropped' = dropped + 1
            THEN /\ accel_buffer' = accel_buffer
                 /\ sample_count' = sample_count
                 /\ pc' = "sampling"
            ELSE /\ dropped' = dropped
                 /\ sample_count' = sample_count + 3]_vars
    /\ [](busMode = "third" /\ pc = "sampling" =>
            /\ dropped = ticks \div 3
            /\ sample_count + 150 * postCalls = 3 * (ticks - (ticks \div 3)))

\* 76 ticks on the every-third bus: 25 dropped, 153 values appended (one
\* full batch and the first sample of the next)
C3_Witness ==
    /\ busMode = "third" /\ pc = "sampling"
    /\ ticks = 76 /\ dropped = 25 /\ postCalls = 1 /\ sample_count = 3

\* C4: an identity byte other than 0x1A, or a failed identity read, ends
\* startup in Fatal with no register write, no data read and no upload;
\* the byte 0x1A lets startup go on to configuration and Sampling.
C4_IdentityGate ==
    /\ idRead = "fail" => who_am_i # 26
    /\ (idRead # "none" /\ who_am_i # 26) =>
          /\ pc = "fatal"
          /\ writes = <<>>
          /\ ticks = 0 /\ acq = 0
          /\ postCalls = 0 /\ performs = 0
    /\ (idRead # "none" /\ who_am_i = 26) =>
          pc \in {"cfg", "collect", "sampling"} \cup PostPcs
    /\ (pc \in {"cfg", "collect", "sampling"} \cup PostPcs) =>
          (idRead = "ok" /\ who_am_i = 26)

\* a device that answers the identity read with another byte
C4_Witness == pc = "fatal" /\ idRead = "ok" /\ who_am_i = 42

\* C5: Sampling is entered only after every configuration write succeeded.
C5_SamplingOnlyAfterCfgOk ==
    (pc \in {"collect", "sampling"} \cup PostPcs) =>
        \A i \in DOMAIN writes : writes[i][3] = ESP_OK

\* the j-th logged write puts the device into active mode
IsActiveWrite(j) == writes[j][1] = 42 /\ writes[j][2] = 1

\* C6: the first write is control := 0x00 (standby); the orientation and
\* range writes lie strictly between it and control := 0x01 (active); the
\* active write is the last configuration write, and no data-register read
\* of the sampling loop precedes it.
C6_StandbyConfigureActive ==
    LET n == Len(writes)
    IN  /\ n >= 1 => (writes[1][1] = 42 /\ writes[1][2] = 0)
        /\ \A i \in 1..n :
              writes[i][1] \in {17, 18, 19, 14} =>
                  /\ i > 1
                  /\ \A j \in 1..n : IsActiveWrite(j) => i < j
        /\ \A j \in 1..n : IsActiveWrite(j) => (j = n /\ pc # "cfg")
        /\ (ticks > 0 \/ pc \in {"collect", "sampling"} \cup PostPcs) =>
              /\ n >= 1 /\ IsActiveWrite(n)
              /\ {17, 18, 19, 14} \subseteq {writes[i][1] : i \in 1..n}

\* the sampling loop reads data after all six writes
C6_Witness == ticks > 0 /\ Len(writes) = 6 /\ pc = "sampling"

\* C7: a batch whose upload fails is dropped: no batch gets more than one
\* transfer, after the failed transfer control goes through the cleanup
\* back to Sampling with the count reset to 0, and no value of a batch
\* that was not delivered is in a batch sent later.
C7_FailedBatchDropped ==
    /\ [](/\ performs <= postCalls
          /\ pc = "post_wait" => Range(accel_buffer) \cap lostVals = {})
    /\ [][/\ (pc = "post_wait" /\ err' # ESP_OK) =>
                (pc' = "post_cleanup" /\ performs' = performs)
          /\ pc = "post_cleanup" => (pc' = "collect" /\ performs' = performs)
          /\ pc = "collect" => (pc' = "sampling" /\ sample_count' = 0)]_vars

\* the second batch is being uploaded after the upload of the first failed
C7_Witness ==
    /\ pc = "post_wait" /\ performs = 2 /\ postCalls = 2 /\ lostVals # {}

\* C8: at most one batch is in flight, and while an upload is in flight no
\* bus acquisition happens and nothing is appended to the buffer.
C8_SamplingPausedDuringSend ==
    /\ [](inFlight \in {0, 1})
    /\ [][inFlight > 0 =>
            /\ ticks' = ticks /\ acq' = acq
            /\ accel_buffer' = accel_buffer
            /\ sample_count' = sample_count]_vars

\* the upload of the second batch is in flight
C8_Witness == inFlight = 1 /\ pc = "post_wait" /\ postCalls = 2 /\ ticks >= 100

\* C9: every client handle and serialization buffer acquired by an HTTP
\* operation is released exactly once on every exit path: none is live
\* once the operation has returned, and nothing is released twice.
C9_TransportResourcesReleased ==
    /\ ~badFree
    /\ liveHandles \in {0, 1} /\ liveBufs \in {0, 1}
    /\ ~InHttp => (liveHandles = 0 /\ liveBufs = 0)
    /\ ~InHttp => (client = NULL /\ post_data = NullBody)

\* an upload whose transfer failed has returned
C9_Witness ==
    /\ pc = "collect" /\ batches = 1 /\ performs = 1 /\ lostVals # {}
    /\ liveHandles = 0 /\ liveBufs = 0

\* C10: the k-th successful tick since the reset has its x, y, z at
\* positions 3k, 3k+1, 3k+2 of the batch, and the uploaded array lists the
\* 150 values in the index order of the buffer.
C10_AcquisitionOrder ==
    /\ (pc = "sampling" \/ InPost) =>
          /\ Len(acquired) <= 50
          /\ \A k \in 0..(Len(acquired) - 1) :
                /\ accel_buffer[3 * k] = acquired[k + 1][1]
                /\ accel_buffer[3 * k + 1] = acquired[k + 1][2]
                /\ accel_buffer[3 * k + 2] = acquired[k + 1][3]
    /\ BodyBuilt =>
          /\ DOMAIN post_data = 1..150
          /\ \A i \in 0..149 : post_data[i + 1] = Fmt2(accel_buffer[i])

\* a full batch of 50 samples, taken around failed reads, is being uploaded
C10_Witness ==
    /\ pc = "post_wait" /\ Len(acquired) = 50 /\ dropped > 0
    /\ acquired[50][1] # acquired[50][2] /\ acquired[50][2] # acquired[50][3]

\* the raw integers of the three axes of the input frame
InputRaw == <<Combine(in_msb, in_lsb), Combine(in_lsb, in_msb),
              Combine(in_msb, in_lsb)>>

\* the three axis values of process_data
PolicyA == <<fn_out.pd.ax, fn_out.pd.ay, fn_out.pd.az>>

\* the three axis values of mma8451_read_accel
PolicyB == fn_out.rd.xyz

\* C11 as stated: for every 16-bit raw value the shift-then-4096 policy and
\* the divide-by-16384 policy give the same value on every axis.
C11_PoliciesAgree ==
    pc = "fn_processed" => \A k \in 1..3 : PolicyA[k] = PolicyB[k]

\* C11: the acquisition path divides every axis by 16384 without a shift;
\* the shift-then-4096 policy gives the value of the raw integer with its
\* two low bits cleared, so the two agree exactly on the raw integers that
\* are multiples of 4 and differ by (r mod 4)/16384 g on the others.
C11_PoliciesAgreeOnJustified ==
    pc = "fn_processed" =>
        \A k \in 1..3 :
            /\ PolicyB[k] = InputRaw[k]
            /\ PolicyA[k] = InputRaw[k] - (InputRaw[k] % 4)
            /\ (PolicyA[k] = PolicyB[k]) <=> (InputRaw[k] % 4 = 0)

\* both policies were applied to the negative raw integer -3
C11_Witness ==
    /\ pc = "fn_processed" /\ in_msb = 255 /\ in_lsb = 253
    /\ PolicyB[1] = 0 - 3 /\ PolicyA[1] = 0 - 4

\* C12: the orientation decode is defined for every status byte and is a
\* function of its low 3 bits: bits 2:1 give 0 Portrait Up, 1 Portrait Down,
\* 2 Landscape Right, 3 Landscape Left, bit 0 gives 0 Front, 1 Back; the
\* Unknown branch is never taken.
C12_OrientationTable ==
    pc = "fn_processed" =>
        LET low == in_lsb % 8
        IN  /\ fn_out.pd.pl_state =
                  (CASE low \in {0, 1} -> "Portrait Up"
                     [] low \in {2, 3} -> "Portrait Down"
                     [] low \in {4, 5} -> "Landscape Right"
                     [] low \in {6, 7} -> "Landscape Left")
            /\ fn_out.pd.side = (IF low \in {1, 3, 5, 7} THEN "Back" ELSE "Front")
            /\ fn_out.pd.pl_state # "Unknown"

\* a status byte with high bits set decoded by its low bits 110
C12_Witness ==
    /\ pc = "fn_processed" /\ in_lsb = 246
    /\ fn_out.pd.pl_state = "Landscape Left" /\ fn_out.pd.side = "Front"

\* C16: the raw integer of an axis is the two's-complement reading of
\* msb*256 + lsb: it lies in -32768..32767 and is negative exactly when
\* msb >= 0x80.
C16_TwosComplement ==
    pc = "fn_decoded" =>
        LET v == in_msb * 256 + in_lsb
            w == in_lsb * 256 + in_msb
            x == fn_out.rd.xyz[1]
            y == fn_out.rd.xyz[2]
        IN  /\ x = (IF v < 32768 THEN v ELSE v - 65536)
            /\ y = (IF w < 32768 THEN w ELSE w - 65536)
            /\ x \in (0 - 32768)..32767
            /\ (x < 0) <=> (in_msb >= 128)
            /\ (y < 0) <=> (in_lsb >= 128)

\* the most negative reading has been decoded
C16_Witness ==
    /\ pc = "fn_decoded" /\ in_msb = 128 /\ in_lsb = 0
    /\ fn_out.rd.xyz[1] = 0 - 32768 /\ fn_out.rd.xyz[2] = 128

\* C19: the body of a batch of 150 decoded values, brackets, commas and
\* terminating NUL included, stays inside the 2048 bytes of post_data: no
\* element text is longer than 6 characters and neither the write offset
\* nor the index of the last byte written reaches 2048.
C19_BodyFitsBuffer ==
    pc = "fn_serialized" =>
        /\ \A n \in fn_out.ser.lens : n <= 6
        /\ fn_out.ser.offset < POST_DATA_SIZE
        /\ fn_out.ser.last < POST_DATA_SIZE
        /\ fn_out.ser.last <= PREFIX_LEN + 150 * 6 + 149 + 2

\* a batch whose 150 values all take 6 characters has been serialized
C19_Witness ==
    /\ pc = "fn_serialized" /\ in_msb = 128 /\ in_lsb = 128
    /\ fn_out.ser.lens = {6} /\ fn_out.ser.last = 1061

\* the positions of the loop of app_main: Sampling (between and inside the
\* sampling loops) and Flushing (inside post_acceleration_list)
LoopPcs == {"collect", "sampling"} \cup PostPcs

\* C13: once Sampling is entered the loop is never left;
\* Sampling is left only for Flushing with a full batch, Flushing only for
\* Sampling, whose count is reset to 0 before the first tick; every
\* Flushing leads back to Sampling with an empty buffer and, with bus reads
\* that succeed again and again and sends that return, a full batch is
\* handed to the uploader infinitely often.
C13_LoopForever ==
    /\ [][(pc \in LoopPcs) => (pc' \in LoopPcs)]_vars
    /\ [][(pc = "sampling" /\ pc' # "sampling") =>
             (pc' = "post_malloc" /\ sample_count' = 150 /\ length' = 150)]_vars
    /\ [][(InPost /\ ~InPost') => pc' = "collect"]_vars
    /\ [][(pc = "collect" /\ pc' # "collect") =>
             (pc' = "sampling" /\ sample_count' = 0)]_vars
    /\ InPost ~> (pc = "sampling" /\ sample_count = 0)
    /\ (pc \in LoopPcs) ~> (pc = "post_malloc" /\ sample_count = 150)

\* Sampling has been entered again after a flush whose transfer failed
\* and after failed bus reads
C13_Witness ==
    /\ cyclic /\ pc = "sampling" /\ sample_count = 3 /\ accel_buffer[149] # 0
    /\ err = ESP_OK /\ liveBufs = 0 /\ busMode = "third" /\ ticks = 1

\* the body delivered to the running request as a NUL-terminated string
BodyText ==
    [i \in 0..Len(body) |-> IF i < Len(body) THEN body[i + 1] ELSE 0]

\* the body delivered so far is a decimal number that fits an int
BodyIsDecimal ==
    /\ Len(body) \in 1..9
    /\ \A i \in 1..Len(body) : IsDigit(body[i])

\* C14: a successful GET whose body is a decimal number makes
\* make_temp_request return the integer that the body denotes, however the
\* body was split into data events.
C14_ResultIsBodyValue ==
    (pc = "t_cleanup" /\ err = ESP_OK /\ BodyIsDecimal) =>
        result = atoi(BodyText)

\* C17: at the start of every request the accumulator is empty: the write
\* index is 0 and int_buffer holds the empty string, whatever the earlier
\* requests did.
C17_AccumulatorEmptyAtStart ==
    pc = "t_init" => (int_buffer_index = 0 /\ int_buffer[0] = 0)

\* C18: the value that the pulse task assigns to pulse_bpm and divides
\* 60000 by is never zero, whatever the outcome of the request.
C18_PulseBpmNonZero ==
    (pc = "t_return" /\ caller = "pulse") => result # 0

\* C20: int_buffer_index stays in 0..14, a data event writes only indices
\* 0..14 of the 16-byte int_buffer, its terminator included, and a chunk
\* that does not fit changes neither the buffer nor the index.
C20_IntBufferInBounds ==
    /\ [](/\ int_buffer_index \in 0..14
          /\ DOMAIN int_buffer = 0..15
          /\ ibTouched \subseteq 0..14
          /\ ibTouched # {} =>
                (int_buffer_index \in ibTouched /\ int_buffer[int_buffer_index] = 0))
    /\ [][(chunks' = chunks + 1 /\
            int_buffer_index + (Len(body') - Len(body)) >= 15) =>
               (/\ int_buffer' = int_buffer
                /\ int_buffer_index' = int_buffer_index
                /\ ibTouched' = {})]_vars

\* the index stands at 14 and a further one-byte chunk has been dropped
C20_Witness ==
    /\ pc = "t_perform" /\ chunks = 2 /\ int_buffer_index = 14
    /\ ibTouched = {} /\ int_buffer[14] = 0

====
